---- MODULE Spec2Model ----
(***************************************************************************)
(* The DBLP processing pipeline of pipeline.py as a state machine.         *)
(*                                                                         *)
(* The state is the four CSV files the graph and corpus sections read      *)
(* (paper.csv, author.csv, person.csv, refs.csv of the working directory), *)
(* the objects the sections build from them (refg, idmap, authorg, lcc,    *)
(* venue_map, communities, the term dictionary) and the files they write   *)
(* that later sections read back.  There is one action per section of the  *)
(* file, taken in file order; an uncaught exception ends the run.          *)
(*                                                                         *)
(* Identifiers are kept as the code has them: csv.reader yields the text   *)
(* of a field, pandas parses a numeric column to integers, str() and int() *)
(* convert between the two.  A text is a sequence of decimal digits.       *)
(***************************************************************************)
EXTENDS Integers, Sequences, FiniteSets, TLC

VARIABLES
    PAPER_FILE,     \* paper.csv: rows [id, venue, vec], vec = doctovec(title + abstract)
    AUTHOR_FILE,    \* author.csv: rows <<author_id, paper_id>>
    PERSON_FILE,    \* person.csv: column id
    REFS_FILE,      \* refs.csv: rows <<paper_id, ref_id>>
    papers_file,    \* what the global name papers_file (line 163) resolves to
    pc,             \* the section the run is about to execute
    err,            \* the exception that ended the run, "" if none
    repdoc_file,    \* repdoc-by-author-vectors.csv: rows <<author_id, doc>>
    refg,           \* the paper graph
    idmap,          \* paper id -> node id
    authorg,        \* the author graph
    author_idmap,   \* author id -> node id
    lcc,            \* the giant component of authorg
    lcc_idmap,      \* author id -> node id of lcc
    venue_map,      \* venue -> venue id
    communities,    \* venue id -> list of lcc node ids
    token2id,       \* the gensim dictionary
    mm_file,        \* lcc-repdoc-corpus-tf.mm, line by line
    presence_file   \* lcc-repdoc-corpus-author-term-presence.tsv, line by line

vars == <<PAPER_FILE, AUTHOR_FILE, PERSON_FILE, REFS_FILE, papers_file, pc, err,
          repdoc_file, refg, idmap, authorg, author_idmap, lcc, lcc_idmap,
          venue_map, communities, token2id, mm_file, presence_file>>

files == <<PAPER_FILE, AUTHOR_FILE, PERSON_FILE, REFS_FILE, papers_file>>

-----------------------------------------------------------------------------
(* Bounds of the model: the longest table of each kind that Init draws.     *)

MaxPaperRows == 2
MaxAuthorRows == 2
MaxPersonRows == 2
MaxRefRows == 2
MaxPersons == 8

-----------------------------------------------------------------------------
(* Sequences and sets.                                                      *)

Range(s) == {s[i] : i \in DOMAIN s}

SeqsUpTo(S, n) == UNION {[1..k -> S] : k \in 0..n}

Min(S) == CHOOSE x \in S : \A y \in S : x <= y

Max(S) == CHOOSE x \in S : \A y \in S : y <= x

RECURSIVE Flatten(_)
Flatten(ss) == IF ss = <<>> THEN <<>> ELSE Head(ss) \o Flatten(Tail(ss))

RECURSIVE Repeat(_, _)
Repeat(x, n) == IF n = 0 THEN <<>> ELSE <<x>> \o Repeat(x, n - 1)

(* The elements of a finite set of integers in ascending order.             *)
RECURSIVE Ascending(_)
Ascending(S) == IF S = {} THEN <<>> ELSE <<Min(S)>> \o Ascending(S \ {Min(S)})

-----------------------------------------------------------------------------
(* Texts and integers.                                                      *)

(* int(text): the decimal value of a digit string; leading zeros vanish.    *)
RECURSIVE int(_)
int(t) == IF t = <<>> THEN 0 ELSE 10 * int(SubSeq(t, 1, Len(t) - 1)) + t[Len(t)]

(* str(n) and the '%d' of to_csv: the digits of n without leading zeros.    *)
RECURSIVE str(_)
str(n) == IF n < 10 THEN <<n>> ELSE str(n \div 10) \o <<n % 10>>

(* '|'.join(strings).  A string of '|'-separated tokens is kept as the list *)
(* of its fields, so the empty string is the one-field list [''] (token 0)  *)
(* and joining concatenates the field lists; joining nothing gives ''.      *)
join(strings) == IF strings = <<>> THEN <<0>> ELSE Flatten(strings)

(* string.split('|'): the fields of the string.                             *)
split(string) == string

-----------------------------------------------------------------------------
(* The graph library (igraph), as far as the pipeline uses it.  Vertices    *)
(* are 0 .. n-1, vertex i is position i+1 of the attribute lists.           *)

(* igraph.Graph(): no vertices, no edges, and undirected, the default of    *)
(* the constructor's directed parameter.                                    *)
Graph == [directed |-> FALSE, name |-> <<>>, edges |-> <<>>]

vcount(g) == Len(g.name)

vs(g) == 0 .. vcount(g) - 1

(* add_vertices(names): one vertex per name, in order, after those present. *)
add_vertices(g, names) == [g EXCEPT !.name = @ \o names]

(* How the library stores one added edge: as given in a directed graph,     *)
(* with the larger endpoint first in an undirected one.                     *)
store_edge(directed, e) ==
    IF directed \/ e[1] > e[2] THEN [from |-> e[1], to |-> e[2]]
                               ELSE [from |-> e[2], to |-> e[1]]

(* add_edges(pairs of vertex ids): one edge per pair, in order.             *)
add_edges(g, es) ==
    [g EXCEPT !.edges = @ \o [k \in 1..Len(es) |-> store_edge(g.directed, es[k])]]

(* edge.source and edge.target: the stored endpoints in a directed graph,   *)
(* the smaller and the larger endpoint in an undirected one.                *)
source(g, e) == IF g.directed THEN e.from ELSE e.to

target(g, e) == IF g.directed THEN e.to ELSE e.from

(* How often u is listed among the neighbours of v: once per edge v->u and  *)
(* once per edge u->v, so twice per self-loop.                              *)
adjacency(g, v, u) ==
    Cardinality({k \in DOMAIN g.edges : g.edges[k].from = v /\ g.edges[k].to = u})
  + Cardinality({k \in DOMAIN g.edges : g.edges[k].to = v /\ g.edges[k].from = u})

(* vertex.neighbors(): the neighbours in either direction, by vertex id.    *)
RECURSIVE neighbors_from(_, _, _)
neighbors_from(g, v, u) ==
    IF u >= vcount(g) THEN <<>>
    ELSE Repeat(u, adjacency(g, v, u)) \o neighbors_from(g, v, u + 1)

neighbors(g, v) == neighbors_from(g, v, 0)

(* {v['name']: v.index for v in graph.vs}: a later vertex of the same name  *)
(* replaces the entry of an earlier one.                                    *)
name_index_map(g) ==
    [t \in Range(g.name) |-> Max({i \in DOMAIN g.name : g.name[i] = t}) - 1]

(* The library's lookup of a vertex by name (add_edges with names): the     *)
(* first vertex of that name.                                               *)
vertex_by_name(g, t) == Min({i \in DOMAIN g.name : g.name[i] = t}) - 1

-----------------------------------------------------------------------------
(* Section "parse repdocs into author vectors" (lines 81-141).              *)

(* repdoc-by-paper-vectors.csv (lines 101-105) as pandas reads it back with *)
(* the id column as index (lines 124-125): per paper row the parsed id and  *)
(* the '|'-joined token vector; an empty field reads as NaN and fillna('')  *)
(* makes it the empty string again.                                         *)
paper_vectors ==
    [k \in DOMAIN PAPER_FILE |->
        [id |-> int(PAPER_FILE[k].id),
         doc |-> join([j \in DOMAIN PAPER_FILE[k].vec |-> <<PAPER_FILE[k].vec[j]>>])]]

(* author.csv as pandas reads it: both columns parsed to integers.          *)
author_df == [k \in DOMAIN AUTHOR_FILE |->
                 [author_id |-> int(AUTHOR_FILE[k][1]), paper_id |-> int(AUTHOR_FILE[k][2])]]

(* The rows df.loc[paper_id] selects.                                       *)
loc(df, paper_id) == {k \in DOMAIN df : df[k].id = paper_id}

(* The order in which iteritems() yields the keys of a dict of integers: by *)
(* hash slot.  An integer hashes to itself, the table has 8 slots up to     *)
(* five keys and 32 slots from six keys on; the keys of the tables drawn    *)
(* here never share a slot.                                                 *)
RECURSIVE by_slot(_, _)
by_slot(keys, size) ==
    IF keys = {} THEN <<>>
    ELSE LET k == CHOOSE x \in keys : \A y \in keys : x % size <= y % size
         IN  <<k>> \o by_slot(keys \ {k}, size)

iteritems_order(keys) == by_slot(keys, IF Cardinality(keys) <= 5 THEN 8 ELSE 32)

(* The docs appended for one author, in row order (lines 135-137).          *)
RECURSIVE docs_of(_, _, _)
docs_of(person_id, rows, df) ==
    IF rows = <<>> THEN <<>>
    ELSE (IF Head(rows).author_id = person_id
          THEN <<df[CHOOSE k \in loc(df, Head(rows).paper_id) : TRUE].doc>>
          ELSE <<>>) \o docs_of(person_id, Tail(rows), df)

(* repdocs as saved (lines 130-141): one row per author of author.csv, in   *)
(* dict order, the author id printed and its docs joined.                   *)
repdocs_rows ==
    LET order == iteritems_order({author_df[k].author_id : k \in DOMAIN author_df})
    IN  [n \in DOMAIN order |->
            <<str(order[n]), join(docs_of(order[n], author_df, paper_vectors))>>]

(* The rows writerows has written when the join of line 140 fails: those of *)
(* the authors that come, in dict order, before the first author one of     *)
(* whose docs is not a string.                                              *)
repdocs_rows_written ==
    LET order == iteritems_order({author_df[k].author_id : k \in DOMAIN author_df})
        fails(n) == \E k \in DOMAIN author_df :
                        /\ author_df[k].author_id = order[n]
                        /\ Cardinality(loc(paper_vectors, author_df[k].paper_id)) > 1
        first == Min({n \in DOMAIN order : fails(n)})
    IN  [n \in 1..(first - 1) |->
            <<str(order[n]), join(docs_of(order[n], author_df, paper_vectors))>>]

BuildRepdocs ==
    /\ pc = "repdocs"
    /\ IF \E k \in DOMAIN author_df : loc(paper_vectors, author_df[k].paper_id) = {}
       THEN \* df.loc[paper_id] of a paper that has no row (line 136)
            /\ pc' = "aborted" /\ err' = "KeyError"
            /\ UNCHANGED repdoc_file
       ELSE IF \E k \in DOMAIN author_df :
                   Cardinality(loc(paper_vectors, author_df[k].paper_id)) > 1
       THEN \* a repeated paper id selects a frame, not a string: join fails (line 140)
            \* after the rows of the authors before the failing one are written
            /\ pc' = "aborted" /\ err' = "TypeError"
            /\ repdoc_file' = repdocs_rows_written
       ELSE /\ repdoc_file' = repdocs_rows
            /\ pc' = "papergraph" /\ UNCHANGED err
    /\ UNCHANGED <<files, refg, idmap, authorg, author_idmap, lcc, lcc_idmap,
                   venue_map, communities, token2id, mm_file, presence_file>>

-----------------------------------------------------------------------------
(* Section "build paper citation graph using paper.csv" (lines 143-197).    *)

(* Lines 149-160: one vertex per row of paper.csv, named by the id text,    *)
(* and the paper id to node id map.  An attribute a vertex was never given  *)
(* reads as None, kept here as <<>>.                                        *)
BuildPaperGraph ==
    /\ pc = "papergraph"
    /\ LET g == add_vertices(Graph, [k \in DOMAIN PAPER_FILE |-> PAPER_FILE[k].id])
       IN  /\ refg' = [directed |-> g.directed, name |-> g.name, edges |-> g.edges,
                       venue |-> [k \in DOMAIN g.name |-> <<>>],
                       author_ids |-> [k \in DOMAIN g.name |-> <<>>]]
           /\ idmap' = name_index_map(g)
    /\ pc' = "venues"
    /\ UNCHANGED <<files, err, repdoc_file, authorg, author_idmap, lcc, lcc_idmap,
                   venue_map, communities, token2id, mm_file, presence_file>>

(* The venue each vertex ends with after the loop of lines 167-169 over     *)
(* `rows`: that of the last row whose id maps to the vertex.                *)
venue_attr(g, map, rows) ==
    [i \in DOMAIN g.name |->
        LET mine == {k \in DOMAIN rows : map[rows[k].id] = i - 1}
        IN  IF mine = {} THEN g.venue[i] ELSE <<rows[Max(mine)].venue>>]

(* Lines 162-169.  The file never assigns the name papers_file: the `with`  *)
(* statement raises NameError unless the namespace the file is executed in  *)
(* already binds it, and then the block reads the file it names.            *)
AttachVenues ==
    /\ pc = "venues"
    /\ IF papers_file = "unbound"
       THEN /\ pc' = "aborted" /\ err' = "NameError"
            /\ UNCHANGED refg
       ELSE /\ refg' = [refg EXCEPT !.venue = venue_attr(refg, idmap, PAPER_FILE)]
            /\ pc' = "authors" /\ UNCHANGED err
    /\ UNCHANGED <<files, repdoc_file, idmap, authorg, author_idmap, lcc, lcc_idmap,
                   venue_map, communities, token2id, mm_file, presence_file>>

(* Lines 171-180: every vertex gets an empty list, then each authorship row *)
(* appends its author id to the list of its paper's vertex.                 *)
author_ids_attr(g, map, rows) ==
    [i \in DOMAIN g.name |->
        LET RECURSIVE appended(_)
            appended(rs) ==
                IF rs = <<>> THEN <<>>
                ELSE (IF map[Head(rs)[2]] = i - 1 THEN <<Head(rs)[1]>> ELSE <<>>)
                     \o appended(Tail(rs))
        IN  appended(rows)]

AttachAuthors ==
    /\ pc = "authors"
    /\ IF \E k \in DOMAIN AUTHOR_FILE : AUTHOR_FILE[k][2] \notin DOMAIN idmap
       THEN \* idmap[paper_id] of a paper that is no vertex (line 179), after
            \* the rows before it have appended their author ids
            /\ pc' = "aborted" /\ err' = "KeyError"
            /\ LET first == Min({k \in DOMAIN AUTHOR_FILE :
                                    AUTHOR_FILE[k][2] \notin DOMAIN idmap})
               IN  refg' = [refg EXCEPT !.author_ids =
                               author_ids_attr(refg, idmap, SubSeq(AUTHOR_FILE, 1, first - 1))]
       ELSE /\ refg' = [refg EXCEPT !.author_ids = author_ids_attr(refg, idmap, AUTHOR_FILE)]
            /\ pc' = "edges" /\ UNCHANGED err
    /\ UNCHANGED <<files, repdoc_file, idmap, authorg, author_idmap, lcc, lcc_idmap,
                   venue_map, communities, token2id, mm_file, presence_file>>

(* iteredges with the iteration ended by the first row whose lookup fails.  *)
RECURSIVE iteredges_break(_, _)
iteredges_break(map, rows) ==
    IF rows = <<>> THEN <<>>
    ELSE IF Head(rows)[1] \in DOMAIN map /\ Head(rows)[2] \in DOMAIN map
         THEN <<(<<map[Head(rows)[1]], map[Head(rows)[2]]>>)>> \o iteredges_break(map, Tail(rows))
         ELSE <<>>

(* iteredges (lines 183-187): the rows translated through the map; a row    *)
(* whose lookup raises is passed over and the iteration goes on.            *)
RECURSIVE iteredges(_, _)
iteredges(map, rows) ==
    IF rows = <<>> THEN <<>>
    ELSE (IF Head(rows)[1] \in DOMAIN map /\ Head(rows)[2] \in DOMAIN map
          THEN <<(<<map[Head(rows)[1]], map[Head(rows)[2]]>>)>>
          ELSE <<>>) \o iteredges(map, Tail(rows))

(* Lines 189-197.                                                           *)
AddReferenceEdges ==
    /\ pc = "edges"
    /\ refg' = add_edges(refg, iteredges(idmap, REFS_FILE))
    /\ pc' = "authorgraph"
    /\ UNCHANGED <<files, err, repdoc_file, idmap, authorg, author_idmap, lcc, lcc_idmap,
                   venue_map, communities, token2id, mm_file, presence_file>>

-----------------------------------------------------------------------------
(* Section "build author cocitation graph" (lines 199-278).                 *)

(* get_paper_edges counting the paper among its own neighbours.            *)
get_paper_edges_own(g, paper_id, author_id) ==
    LET nbrs == <<paper_id>> \o neighbors(g, paper_id)
        authors == Flatten([k \in DOMAIN nbrs |-> g.author_ids[nbrs[k] + 1]])
    IN  [k \in DOMAIN authors |-> <<author_id, authors[k]>>]

(* get_paper_edges (lines 223-230): the author paired with every entry of   *)
(* the author lists of the paper vertex's neighbours.                       *)
get_paper_edges(g, paper_id, author_id) ==
    LET nbrs == neighbors(g, paper_id)
        author_lists == [k \in DOMAIN nbrs |-> g.author_ids[nbrs[k] + 1]]
    IN  IF author_lists = <<>> THEN <<>>
        ELSE LET authors == Flatten(author_lists)
             IN  [k \in DOMAIN authors |-> <<author_id, authors[k]>>]

(* get_edges (lines 232-237) over the rows of line 250.                     *)
RECURSIVE get_edges(_, _, _)
get_edges(g, map, rows) ==
    IF rows = <<>> THEN <<>>
    ELSE get_paper_edges(g, map[Head(rows)[2]], Head(rows)[1])
         \o get_edges(g, map, Tail(rows))

(* The edges of a set in the order simplify() leaves them.                  *)
RECURSIVE edge_order(_)
edge_order(S) ==
    IF S = {} THEN <<>>
    ELSE LET e == CHOOSE x \in S : \A y \in S :
                      x.from < y.from \/ (x.from = y.from /\ x.to <= y.to)
         IN  <<e>> \o edge_order(S \ {e})

(* simplify() collapsing parallel edges only.                               *)
simplify_multiple(g) == [g EXCEPT !.edges = edge_order(Range(g.edges))]

(* graph.simplify(): self-loops removed, parallel edges collapsed.          *)
simplify(g) ==
    [g EXCEPT !.edges = edge_order({e \in Range(g.edges) : e.from # e.to})]

(* build_undirected_graph (lines 240-245); the edges name their endpoints.  *)
build_undirected_graph(nodes, edges) ==
    LET g == add_vertices(Graph, nodes)
    IN  simplify(add_edges(g, [k \in DOMAIN edges |->
                     <<vertex_by_name(g, edges[k][1]), vertex_by_name(g, edges[k][2])>>]))

(* Lines 219-220 and 252: the ids of person.csv as pandas parses them,      *)
(* printed again as the vertex names.                                       *)
person_nodes == [k \in DOMAIN PERSON_FILE |-> str(int(PERSON_FILE[k]))]

(* Lines 247-255.                                                           *)
BuildAuthorGraph ==
    /\ pc = "authorgraph"
    /\ LET edges == get_edges(refg, idmap, AUTHOR_FILE)
       IN  IF \E k \in DOMAIN edges : \E j \in 1..2 : edges[k][j] \notin Range(person_nodes)
           THEN \* add_edges names a vertex the graph does not have
                /\ pc' = "aborted" /\ err' = "ValueError"
                /\ UNCHANGED authorg
           ELSE /\ authorg' = build_undirected_graph(person_nodes, edges)
                /\ pc' = "authormap" /\ UNCHANGED err
    /\ UNCHANGED <<files, repdoc_file, refg, idmap, author_idmap, lcc, lcc_idmap,
                   venue_map, communities, token2id, mm_file, presence_file>>

(* save_id_map (lines 257-266): the map it returns.                         *)
save_id_map(graph) == name_index_map(graph)

(* Line 269.                                                                *)
SaveAuthorIdMap ==
    /\ pc = "authormap"
    /\ author_idmap' = save_id_map(authorg)
    /\ pc' = "lcc"
    /\ UNCHANGED <<files, err, repdoc_file, refg, idmap, authorg, lcc, lcc_idmap,
                   venue_map, communities, token2id, mm_file, presence_file>>

(* The vertices reachable from those of S.                                  *)
RECURSIVE reachable(_, _)
reachable(g, S) ==
    LET T == S \cup {u \in vs(g) : \E e \in Range(g.edges) :
                         \/ e.from \in S /\ e.to = u
                         \/ e.to \in S /\ e.from = u}
    IN  IF T = S THEN S ELSE reachable(g, T)

(* graph.components(): the connected components, numbered in the order of   *)
(* their lowest vertex.                                                     *)
RECURSIVE clusters_of(_, _)
clusters_of(g, left) ==
    IF left = {} THEN <<>>
    ELSE LET c == reachable(g, {Min(left)})
         IN  <<c>> \o clusters_of(g, left \ c)

components(g) == clusters_of(g, vs(g))

(* graph.subgraph(vertices): the induced subgraph, its vertices in the      *)
(* order of their ids in g, names carried over.                             *)
subgraph(g, vertices) ==
    LET order == Ascending(vertices)
        new(v) == (CHOOSE k \in DOMAIN order : order[k] = v) - 1
        kept == SelectSeq(g.edges, LAMBDA e : e.from \in vertices /\ e.to \in vertices)
    IN  [directed |-> g.directed,
         name |-> [k \in DOMAIN order |-> g.name[order[k] + 1]],
         edges |-> [k \in DOMAIN kept |-> [from |-> new(kept[k].from), to |-> new(kept[k].to)]]]

(* giant() taking the first component whatever its size.                    *)
giant_first(g) == subgraph(g, components(g)[1])

(* components.giant(): the first component of the greatest size.            *)
giant(g) ==
    LET cl == components(g)
        ss == [k \in DOMAIN cl |-> Cardinality(cl[k])]
        max_size == Max(Range(ss))
    IN  subgraph(g, cl[Min({k \in DOMAIN ss : ss[k] = max_size})])

(* Lines 271-278.                                                           *)
ExtractLCC ==
    /\ pc = "lcc"
    /\ IF vcount(authorg) = 0
       THEN \* max() of the empty list of sizes
            /\ pc' = "aborted" /\ err' = "ValueError"
            /\ UNCHANGED <<lcc, lcc_idmap>>
       ELSE /\ lcc' = giant(authorg)
            /\ lcc_idmap' = save_id_map(giant(authorg))
            /\ pc' = "communities" /\ UNCHANGED err
    /\ UNCHANGED <<files, repdoc_file, refg, idmap, authorg, author_idmap,
                   venue_map, communities, token2id, mm_file, presence_file>>

-----------------------------------------------------------------------------
(* Section "build up ground-truth communities" (lines 281-347).             *)

(* paper.csv as pandas reads it, columns id and venue (lines 291-294).      *)
paper_df == [k \in DOMAIN PAPER_FILE |->
                [paper_id |-> int(PAPER_FILE[k].id), venue |-> PAPER_FILE[k].venue]]

(* Lines 296-301: the authorship rows of the authors in the LCC joined      *)
(* with the paper rows on paper_id, the paper_id column dropped.            *)
merge_df(g) ==
    LET lcc_author_ids == {int(g.name[k]) : k \in DOMAIN g.name}
        selection == SelectSeq(author_df, LAMBDA r : r.author_id \in lcc_author_ids)
        matches(r) == SelectSeq(paper_df, LAMBDA q : q.paper_id = r.paper_id)
    IN  Flatten([k \in DOMAIN selection |->
                    [j \in DOMAIN matches(selection[k]) |->
                        [author_id |-> selection[k].author_id,
                         venue |-> matches(selection[k])[j].venue]]])

(* Lines 303-306: the venues of the merged rows, sorted, numbered from 0.   *)
venue_ids(merged) ==
    LET unique_venues == Ascending({merged[k].venue : k \in DOMAIN merged})
    IN  [venue \in Range(unique_venues) |->
            (CHOOSE vnum \in DOMAIN unique_venues : unique_venues[vnum] = venue) - 1]

(* Lines 313-324: per LCC vertex the set of venue ids of the merged rows    *)
(* whose author id, printed, the LCC id map sends to it; as a tuple.        *)
venues_attr(g, map, merged, vmap) ==
    [i \in DOMAIN g.name |->
        Ascending({vmap[merged[k].venue] :
                      k \in {j \in DOMAIN merged : map[str(merged[j].author_id)] = i - 1}})]

(* The communities with each vertex listed under the first venue id of its *)
(* tuple only.                                                              *)
build_communities_first(venues, vmap) ==
    [venue_id \in Range(vmap) |->
        LET RECURSIVE members(_)
            members(i) ==
                IF i > Len(venues) THEN <<>>
                ELSE (IF venues[i] # <<>> /\ venues[i][1] = venue_id THEN <<i - 1>> ELSE <<>>)
                     \o members(i + 1)
        IN  members(1)]

(* Lines 329-333: each vertex, in index order, appended to the list of      *)
(* every venue id of its tuple.                                             *)
build_communities(venues, vmap) ==
    [venue_id \in Range(vmap) |->
        LET RECURSIVE members(_)
            members(i) ==
                IF i > Len(venues) THEN <<>>
                ELSE Repeat(i - 1, Cardinality({k \in DOMAIN venues[i] :
                                                    venues[i][k] = venue_id}))
                     \o members(i + 1)
        IN  members(1)]

BuildCommunities ==
    /\ pc = "communities"
    /\ LET merged == merge_df(lcc)
           vmap == venue_ids(merged)
           venues == venues_attr(lcc, lcc_idmap, merged, vmap)
       IN  /\ venue_map' = vmap
           /\ lcc' = [directed |-> lcc.directed, name |-> lcc.name, edges |-> lcc.edges,
                      venues |-> venues]
           /\ communities' = build_communities(venues, vmap)
    /\ pc' = "corpus"
    /\ UNCHANGED <<files, err, repdoc_file, refg, idmap, authorg, author_idmap, lcc_idmap,
                   token2id, mm_file, presence_file>>

-----------------------------------------------------------------------------
(* Section "convert author repdocs to tf/tfidf corpuses" (lines 349-393).   *)

(* Lines 356-357 and 361-365: the documents of the repdoc rows whose author *)
(* id is a key of the saved LCC id map, in the order of the repdoc file.    *)
lcc_corpus(rows, map) ==
    LET lcc_author_ids == {int(t) : t \in DOMAIN map}
        kept == SelectSeq(rows, LAMBDA r : int(r[1]) \in lcc_author_ids)
    IN  [k \in DOMAIN kept |-> split(kept[k][2])]

(* Dictionary.doc2bow(doc, allow_update=True): the tokens of the document   *)
(* not yet known get the next ids, in sorted order.                         *)
add_document(dict, doc) ==
    LET fresh == Ascending(Range(doc) \ DOMAIN dict)
        known == Cardinality(DOMAIN dict)
    IN  [t \in DOMAIN dict \cup Range(doc) |->
            IF t \in DOMAIN dict THEN dict[t]
            ELSE known + (CHOOSE k \in DOMAIN fresh : fresh[k] = t) - 1]

(* gensim.corpora.Dictionary(corpus) (line 366).                            *)
RECURSIVE Dictionary(_, _)
Dictionary(dict, corpus) ==
    IF corpus = <<>> THEN dict
    ELSE Dictionary(add_document(dict, Head(corpus)), Tail(corpus))

(* dictionary.doc2bow(doc) (line 385): (term id, count) by ascending id.    *)
doc2bow(dict, doc) ==
    LET ids == Ascending({dict[t] : t \in Range(doc) \cap DOMAIN dict})
    IN  [k \in DOMAIN ids |->
            <<ids[k], Cardinality({j \in DOMAIN doc : doc[j] \in DOMAIN dict
                                                     /\ dict[doc[j]] = ids[k]})>>]

(* MmCorpus.serialize (line 386): the format line, the dimensions line and  *)
(* one entry line per (document, term), rows and columns counted from 1.    *)
mm_lines(bow_corpus) ==
    LET entries == Flatten([d \in DOMAIN bow_corpus |->
                       [k \in DOMAIN bow_corpus[d] |->
                           [kind |-> "entry",
                            fields |-> <<d, bow_corpus[d][k][1] + 1, bow_corpus[d][k][2]>>]]])
        num_terms == IF entries = <<>> THEN 0
                     ELSE Max({entries[k].fields[2] : k \in DOMAIN entries})
    IN  <<[kind |-> "format", fields |-> <<>>],
          [kind |-> "dims", fields |-> <<Len(bow_corpus), num_terms, Len(entries)>>]>>
        \o entries

BuildCorpus ==
    /\ pc = "corpus"
    /\ LET corpus == lcc_corpus(repdoc_file, lcc_idmap)
           dictionary == Dictionary(<<>>, corpus)
       IN  /\ token2id' = dictionary
           /\ mm_file' = mm_lines([k \in DOMAIN corpus |-> doc2bow(dictionary, corpus[k])])
    /\ pc' = "adapt"
    /\ UNCHANGED <<files, err, repdoc_file, refg, idmap, authorg, author_idmap, lcc,
                   lcc_idmap, venue_map, communities, presence_file>>

-----------------------------------------------------------------------------
(* Section "produce CESNA/CODA/EDCAR formatted data files" (lines 395-425). *)

(* The pairs with only the format line dropped.                             *)
presence_pairs_one_header(lines) ==
    LET in_lines == SelectSeq(Tail(lines), LAMBDA l : Len(l.fields) >= 2)
    IN  [k \in DOMAIN in_lines |-> <<in_lines[k].fields[1] - 1, in_lines[k].fields[2] - 1>>]

(* Lines 417-423: the first two lines read and dropped, then of every line  *)
(* the first two fields, each less one.                                     *)
presence_pairs(lines) ==
    LET in_lines == Tail(Tail(lines))
    IN  [k \in DOMAIN in_lines |-> <<in_lines[k].fields[1] - 1, in_lines[k].fields[2] - 1>>]

WritePresence ==
    /\ pc = "adapt"
    /\ presence_file' = presence_pairs(mm_file)
    /\ pc' = "done"
    /\ UNCHANGED <<files, err, repdoc_file, refg, idmap, authorg, author_idmap, lcc,
                   lcc_idmap, venue_map, communities, token2id, mm_file>>

-----------------------------------------------------------------------------
(* The runs.                                                                *)

(* The state after the filtering section has written the four files.  The  *)
(* name papers_file resolves to nothing when the file is run as a script.   *)
InitWith(paper_tables, author_tables, person_tables, ref_tables) ==
    /\ PAPER_FILE \in paper_tables
    /\ AUTHOR_FILE \in author_tables
    /\ PERSON_FILE \in person_tables
    /\ REFS_FILE \in ref_tables
    /\ papers_file \in {"unbound", "paper.csv"}
    /\ pc = "repdocs"
    /\ err = ""
    /\ repdoc_file = <<>>
    /\ refg = Graph
    /\ idmap = <<>>
    /\ authorg = Graph
    /\ author_idmap = <<>>
    /\ lcc = Graph
    /\ lcc_idmap = <<>>
    /\ venue_map = <<>>
    /\ communities = <<>>
    /\ token2id = <<>>
    /\ mm_file = <<>>
    /\ presence_file = <<>>

(* The rows the tables are drawn from.  Venues and tokens are numbered in   *)
(* their sorting order; a paper row carries the token vector doctovec made  *)
(* of its title and abstract.                                               *)
PaperTable == <<[id |-> <<1>>, venue |-> 2, vec |-> <<2, 1>>],
                [id |-> <<2>>, venue |-> 1, vec |-> <<3>>],
                [id |-> <<3>>, venue |-> 2, vec |-> <<>>]>>

PaperRows == Range(PaperTable)

AuthorRows == {<<1>>, <<2>>} \X {<<1>>, <<2>>, <<3>>}

CitationRows == {<<1>>, <<2>>} \X {<<1>>, <<2>>}

RefRows == {<<1>>, <<2>>, <<3>>} \X {<<1>>, <<2>>, <<3>>}

PersonIds == {<<1>>, <<2>>, <<0, 1>>}

(* Well-formed datasets: three papers, two persons, any authorship rows,    *)
(* any citations between the first two papers.                              *)
Init ==
    InitWith({PaperTable},
             SeqsUpTo(AuthorRows, MaxAuthorRows),
             {<<(<<1>>), (<<2>>)>>},
             SeqsUpTo(CitationRows, MaxRefRows))

(* Two paper tables on which a run fails midway through a section: one      *)
(* repeats the second paper after the first, one writes the id of the       *)
(* second paper with a leading zero.                                        *)
BrokenPaperTables ==
    {<<PaperTable[1], PaperTable[2], PaperTable[2]>>,
     <<PaperTable[1], [PaperTable[2] EXCEPT !.id = <<0, 2>>]>>}

(* Any paper table and any person table, rows repeated or not, in any       *)
(* order, with or without the authorship rows of a two-author dataset.      *)
InitIds ==
    InitWith(SeqsUpTo(PaperRows, MaxPaperRows) \cup BrokenPaperTables,
             {<<>>, <<(<<(<<1>>), (<<1>>)>>), (<<(<<2>>), (<<2>>)>>)>>},
             SeqsUpTo(PersonIds, MaxPersonRows),
             {<<(<<(<<1>>), (<<2>>)>>)>>})

(* Any reference table over three paper ids, the third of which is never a  *)
(* row of the paper table.                                                  *)
InitRefs ==
    InitWith(SeqsUpTo({PaperTable[1], PaperTable[2]}, MaxPaperRows),
             {<<>>, <<(<<(<<1>>), (<<1>>)>>), (<<(<<2>>), (<<2>>)>>)>>},
             {<<(<<1>>), (<<2>>)>>},
             SeqsUpTo(RefRows, MaxRefRows))

(* MaxPersons persons with one paper each; the citing papers either all     *)
(* cite the first paper or all cite the paper before them.                  *)
ChainRefs(choice) ==
    Flatten([k \in 1..MaxPersons |->
                IF k = 1 \/ choice[k] = "none" THEN <<>>
                ELSE IF choice[k] = "first" THEN <<(<<str(k), str(1)>>)>>
                ELSE <<(<<str(k), str(k - 1)>>)>>])

InitLCC ==
    InitWith({[k \in 1..MaxPersons |-> [id |-> str(k), venue |-> 1 + (k % 2), vec |-> <<k>>]]},
             {[k \in 1..MaxPersons |-> <<str(k), str(k)>>]},
             {[k \in 1..MaxPersons |-> str(k)]},
             {ChainRefs([k \in 1..MaxPersons |-> IF citing[k] THEN shape ELSE "none"]) :
                 citing \in [1..MaxPersons -> BOOLEAN], shape \in {"first", "prev"}})

Next ==
    \/ BuildRepdocs
    \/ BuildPaperGraph
    \/ AttachVenues
    \/ AttachAuthors
    \/ AddReferenceEdges
    \/ BuildAuthorGraph
    \/ SaveAuthorIdMap
    \/ ExtractLCC
    \/ BuildCommunities
    \/ BuildCorpus
    \/ WritePresence

Spec == Init /\ [][Next]_vars

SpecIds == InitIds /\ [][Next]_vars

SpecRefs == InitRefs /\ [][Next]_vars

SpecLCC == InitLCC /\ [][Next]_vars

-----------------------------------------------------------------------------
(* What the claims speak of.                                                *)

Stages == <<"repdocs", "papergraph", "venues", "authors", "edges", "authorgraph",
            "authormap", "lcc", "communities", "corpus", "adapt", "done">>

StageNo(stage) == CHOOSE k \in DOMAIN Stages : Stages[k] = stage

(* The section `stage` has run, and the run has not been aborted since.     *)
Past(stage) == pc # "aborted" /\ StageNo(pc) > StageNo(stage)

NoRepeat(s) == \A i, j \in DOMAIN s : s[i] = s[j] => i = j

(* map is a bijection between the names of g's vertices and 0 .. |V|-1      *)
(* that sends the name of every vertex to the index of that vertex.         *)
Bijection(map, g) ==
    /\ DOMAIN map = Range(g.name)
    /\ \A i \in DOMAIN g.name : map[g.name[i]] = i - 1
    /\ \A t, u \in DOMAIN map : map[t] = map[u] => t = u
    /\ {map[t] : t \in DOMAIN map} = vs(g)

(* The person ids as pandas parses them.                                    *)
PersonInts == [k \in DOMAIN PERSON_FILE |-> int(PERSON_FILE[k])]

(* C1 as stated: for every paper table and person table, each of the three  *)
(* identifier maps (paper graph, author graph, LCC) is a bijection between  *)
(* the graph's vertex ids and the node indices 0 .. |V|-1.                  *)
C1_EveryInput ==
    /\ Past("papergraph") => Bijection(idmap, refg)
    /\ Past("authormap") => Bijection(author_idmap, authorg)
    /\ Past("lcc") => Bijection(lcc_idmap, lcc)

(* The reference rows both of whose ids are keys of the paper id map.       *)
KeptRefs == {k \in DOMAIN REFS_FILE : REFS_FILE[k][1] \in DOMAIN idmap
                                      /\ REFS_FILE[k][2] \in DOMAIN idmap}

(* The place among the edges of the edge that kept row k contributes.       *)
EdgeNo(k) == Cardinality({i \in KeptRefs : i <= k})

(* C2: once the reference rows are read, the graph has one edge per row     *)
(* whose two ids are keys of the paper id map, joining the two vertices     *)
(* the map gives, in row order, and no other edge; the run goes on.         *)
C2_ReferenceFiltering ==
    Past("edges") =>
        /\ Len(refg.edges) = Cardinality(KeptRefs)
        /\ \A k \in KeptRefs :
              {refg.edges[EdgeNo(k)].from, refg.edges[EdgeNo(k)].to}
                  = {idmap[REFS_FILE[k][1]], idmap[REFS_FILE[k][2]]}

(* A row with a missing endpoint was passed over and a later row still      *)
(* contributed its edge.                                                    *)
C2_Witness ==
    /\ Past("edges")
    /\ \E k, j \in DOMAIN REFS_FILE : k < j /\ k \notin KeptRefs /\ j \in KeptRefs
    /\ Len(refg.edges) = 1

(* C10 as stated: for each retained reference row the graph holds an edge   *)
(* from the citing paper's vertex to the cited paper's vertex.              *)
C10_Directed ==
    Past("edges") =>
        \A k \in KeptRefs :
            /\ source(refg, refg.edges[EdgeNo(k)]) = idmap[REFS_FILE[k][1]]
            /\ target(refg, refg.edges[EdgeNo(k)]) = idmap[REFS_FILE[k][2]]

(* The pairs of author ids the author graph joins.                          *)
AuthorEdgePairs ==
    {{authorg.name[e.from + 1], authorg.name[e.to + 1]} : e \in Range(authorg.edges)}

Joined(a1, a2) == {a1, a2} \in AuthorEdgePairs

(* Paper vertices p and q are neighbours: some edge joins them, whichever   *)
(* of the two cites the other.                                              *)
PaperNeighbours(p, q) == \E e \in Range(refg.edges) : {e.from, e.to} = {p, q}

(* Some paper vertex with an authorship row of a1 is a neighbour of a paper *)
(* vertex whose author_ids attribute lists a2.                              *)
Linked(a1, a2) ==
    \E k \in DOMAIN AUTHOR_FILE : \E p2 \in vs(refg) :
        /\ AUTHOR_FILE[k][1] = a1
        /\ PaperNeighbours(idmap[AUTHOR_FILE[k][2]], p2)
        /\ a2 \in Range(refg.author_ids[p2 + 1])

(* C3: after build_undirected_graph the author graph joins exactly the      *)
(* pairs of distinct authors linked through two neighbouring paper          *)
(* vertices, each pair by one edge, and no author with itself.              *)
C3_Projection ==
    Past("authorgraph") =>
        /\ AuthorEdgePairs =
              {{x[1], x[2]} : x \in {y \in Range(authorg.name) \X Range(authorg.name) :
                                        y[1] # y[2] /\ Linked(y[1], y[2])}}
        /\ Cardinality(AuthorEdgePairs) = Len(authorg.edges)
        /\ \A e \in Range(authorg.edges) : e.from # e.to

(* Two authors are joined through two neighbouring papers, and one of them  *)
(* is also linked to itself.                                                *)
C3_Witness ==
    /\ Past("authorgraph")
    /\ Len(authorg.edges) = 1
    /\ \E a \in Range(authorg.name) : Linked(a, a)
    /\ \E p, q \in vs(refg) : p # q /\ PaperNeighbours(p, q)

(* Distinct authors with authorship rows of the same paper id.              *)
CoAuthors(a1, a2) ==
    /\ a1 # a2
    /\ \E k, j \in DOMAIN AUTHOR_FILE :
          /\ AUTHOR_FILE[k][1] = a1 /\ AUTHOR_FILE[j][1] = a2
          /\ AUTHOR_FILE[k][2] = AUTHOR_FILE[j][2]

(* C4 as stated: any two distinct co-authors of a paper are joined in the   *)
(* author graph, whether or not the paper has a neighbour.                  *)
C4_CoAuthorsJoined ==
    Past("authorgraph") =>
        \A a1, a2 \in Range(authorg.name) : CoAuthors(a1, a2) => Joined(a1, a2)

(* C4 amended: two distinct co-authors of a paper are joined exactly when   *)
(* a paper of one is a neighbour of a paper of the other (as when their     *)
(* common paper cites itself); co-authorship alone joins nobody.            *)
C4_CoAuthorsJoinedIfLinked ==
    Past("authorgraph") =>
        \A a1, a2 \in Range(authorg.name) :
            CoAuthors(a1, a2) => (Joined(a1, a2) <=> Linked(a1, a2))

(* Two co-authors of a paper that the author graph does not join.           *)
C4_Witness ==
    /\ Past("authorgraph")
    /\ \E a1, a2 \in Range(authorg.name) : CoAuthors(a1, a2) /\ ~Joined(a1, a2)

(* The ids of the venues of the papers the author of LCC vertex n wrote.    *)
WrittenVenueIds(n) ==
    {venue_map[PAPER_FILE[j].venue] :
        j \in {i \in DOMAIN PAPER_FILE : \E k \in DOMAIN AUTHOR_FILE :
                  /\ int(AUTHOR_FILE[k][1]) = int(lcc.name[n + 1])
                  /\ int(AUTHOR_FILE[k][2]) = int(PAPER_FILE[i].id)}}

(* C6: an LCC vertex is listed in the community of a venue id exactly when  *)
(* the id is in the vertex's venue set, which holds the venues of the       *)
(* papers its author wrote; it is listed at most once, and no community of  *)
(* the venue map is empty.                                                  *)
C6_CommunityInversion ==
    Past("communities") =>
        /\ DOMAIN communities = Range(venue_map)
        /\ \A v \in Range(venue_map) :
              /\ communities[v] # <<>>
              /\ NoRepeat(communities[v])
              /\ Range(communities[v]) \subseteq vs(lcc)
              /\ \A n \in vs(lcc) :
                    n \in Range(communities[v]) <=> v \in Range(lcc.venues[n + 1])
        /\ \A n \in vs(lcc) : Range(lcc.venues[n + 1]) = WrittenVenueIds(n)

(* An author with the venue set {0, 1} is listed in both communities.       *)
C6_Witness ==
    /\ Past("communities")
    /\ Cardinality(Range(venue_map)) = 2
    /\ \E n \in vs(lcc) :
          /\ Range(lcc.venues[n + 1]) = {0, 1}
          /\ \A v \in {0, 1} : n \in Range(communities[v])

EntryLines == SelectSeq(mm_file, LAMBDA l : l.kind = "entry")

(* C7: the presence file has one pair per entry line of the matrix-market   *)
(* file, in the same order, the row and the column each less one and none   *)
(* negative; the format line and the dimensions line give no pair.          *)
C7_IndexShift ==
    Past("adapt") =>
        /\ mm_file[1].kind = "format" /\ mm_file[2].kind = "dims"
        /\ Len(presence_file) = Len(mm_file) - 2
        /\ Len(presence_file) = Len(EntryLines)
        /\ \A k \in DOMAIN presence_file :
              /\ presence_file[k] = <<EntryLines[k].fields[1] - 1, EntryLines[k].fields[2] - 1>>
              /\ presence_file[k][1] >= 0 /\ presence_file[k][2] >= 0

(* The entry (1, 1) came out as (0, 0), followed by an entry of the second  *)
(* document.                                                                *)
C7_Witness ==
    /\ Past("adapt")
    /\ Len(EntryLines) >= 2
    /\ EntryLines[1].fields[1] = 1 /\ EntryLines[1].fields[2] = 1
    /\ presence_file[1] = <<0, 0>>
    /\ \E k \in DOMAIN presence_file : presence_file[k][1] = 1

(* C9 as stated: a run over a well-formed dataset executes every section    *)
(* without aborting, and ends with one paper vertex per paper carrying its  *)
(* venue and author ids, one edge per reference between papers of the       *)
(* table, the projected author graph, and (when every person is an author)  *)
(* a non-empty term dictionary.                                             *)
C9_EndToEnd ==
    /\ pc # "aborted"
    /\ pc = "done" =>
          /\ vcount(refg) = Len(PAPER_FILE)
          /\ Len(refg.edges) = Cardinality(KeptRefs)
          /\ \A i \in DOMAIN PAPER_FILE :
                /\ refg.venue[i] = <<PAPER_FILE[i].venue>>
                /\ \A a \in Range(PERSON_FILE) :
                      a \in Range(refg.author_ids[i])
                          <=> <<a, PAPER_FILE[i].id>> \in Range(AUTHOR_FILE)
          /\ C3_Projection
          /\ (\A a \in Range(PERSON_FILE) : \E r \in Range(AUTHOR_FILE) : r[1] = a)
                => token2id # <<>>

(* Whether two vertices of g are joined by a path: the reflexive and        *)
(* transitive closure of adjacency, by repeated squaring.                   *)
RECURSIVE Closure(_, _)
Closure(V, M) ==
    LET M2 == [a \in V |-> [c \in V |-> M[a][c] \/ \E b \in V : M[a][b] /\ M[b][c]]]
    IN  IF M2 = M THEN M ELSE Closure(V, M2)

Paths(g) ==
    LET links == {{e.from, e.to} : e \in Range(g.edges)}
    IN  Closure(vs(g), [a \in vs(g) |-> [c \in vs(g) |-> a = c \/ {a, c} \in links]])

(* The sizes of the connected components of the author graph, per vertex.   *)
ComponentSize ==
    LET paths == Paths(authorg)
    IN  [v \in vs(authorg) |-> Cardinality({u \in vs(authorg) : paths[v][u]})]

(* The author-graph vertex that LCC vertex i stands for.                    *)
Parent(i) == author_idmap[lcc.name[i + 1]]

(* C5: the LCC is connected, holds exactly the author-graph edges between   *)
(* its vertices, none of its vertices has an author-graph neighbour outside *)
(* it, no component of the author graph has more vertices, and among the    *)
(* components of that size it is the one with the lowest vertex.            *)
C5_LargestComponent ==
    Past("lcc") =>
        LET inside == {Parent(i) : i \in vs(lcc)}
            size == ComponentSize
            within == Paths(lcc)
        IN  /\ \A a, c \in vs(lcc) : within[a][c]
            /\ Cardinality(inside) = vcount(lcc)
            /\ {{Parent(e.from), Parent(e.to)} : e \in Range(lcc.edges)}
                  = {{e.from, e.to} : e \in {d \in Range(authorg.edges) :
                                                d.from \in inside /\ d.to \in inside}}
            /\ Len(lcc.edges) = Cardinality({{e.from, e.to} : e \in Range(lcc.edges)})
            /\ \A e \in Range(authorg.edges) : e.from \in inside <=> e.to \in inside
            /\ \A v \in vs(authorg) : size[v] <= vcount(lcc)
            /\ Min({v \in vs(authorg) : size[v] = vcount(lcc)}) \in inside

(* Components of 5, 2 and 1 vertices, the largest extracted, and it is not  *)
(* the component of the first vertex.                                       *)
C5_Witness ==
    /\ Past("lcc")
    /\ vcount(authorg) = 8
    /\ {ComponentSize[v] : v \in vs(authorg)} = {5, 2, 1}
    /\ vcount(lcc) = 5
    /\ ComponentSize[0] = 1

(* The document of an author in the repdoc file.                            *)
DocOf(author_id) ==
    split((CHOOSE r \in Range(repdoc_file) : int(r[1]) = author_id)[2])

(* The k-th bag of the corpus, counted from 0: the (term id, count) pairs   *)
(* of the entry lines of row k + 1.                                         *)
Bag(k) ==
    LET lines == SelectSeq(mm_file, LAMBDA l : l.kind = "entry" /\ l.fields[1] = k + 1)
    IN  [j \in DOMAIN lines |-> <<lines[j].fields[2] - 1, lines[j].fields[3]>>]

(* C8 as stated: the corpus has one bag per LCC author, and the k-th bag is *)
(* the document of the author whose LCC node id is k (here for datasets in  *)
(* which every person is an author and no person id is repeated).           *)
C8_NodeIdsConsistent ==
    ( /\ pc = "done"
      /\ NoRepeat(PersonInts)
      /\ \A a \in Range(PersonInts) : \E r \in Range(AUTHOR_FILE) : int(r[1]) = a )
    =>  /\ mm_file[2].fields[1] = vcount(lcc)
        /\ \A k \in vs(lcc) : Bag(k) = doc2bow(token2id, DocOf(int(lcc.name[k + 1])))

====
